---- MODULE Spec2Model ----
(***************************************************************************)
(* Case similarity search (backend/api/similarity.py).                     *)
(*                                                                         *)
(* The store (case array and the three embedding matrices) is loaded once  *)
(* at import time; every request handler is an `async def` without any     *)
(* await, so a handler runs atomically and is one action.                  *)
(*                                                                         *)
(* Conventions of the model                                                *)
(*   - rows are numbered 1..n (Python: 0..n-1); get_case_by_id returns 0   *)
(*     where Python returns None;                                          *)
(*   - a vector is a pair of integers; cosine scores are fixed-point       *)
(*     numbers with denominator ScoreDen; the hybrid combined score has    *)
(*     denominator ScoreDen * WeightDen (text_weight = tw / WeightDen);    *)
(*   - a ranked entry is a tuple <<idx, score>> or                         *)
(*     <<idx, combined, text, image>>, as in the source;                   *)
(*   - formatted similarities are integers in units of 10^-RoundDigits.    *)
(***************************************************************************)
EXTENDS Integers, Sequences, FiniteSets, TLC

\* ---------------------------------------------------------------- bounds
MaxCases == 3
MaxK == 3
WeightDen == 2
ScoreDen == 100

\* longest precomputed list of the UMAP similarity lookup
MaxList == 2

\* most requests waiting on the event loop at one time
MaxInflight == 2

\* most records of cases_cleaned_v2.json and of cases_summary_v2.json
MaxSummaries == 2

\* most diagnoses of diagnosis_biobert_clusters.json
MaxEntries == 2

\* most records of the data file given to the K-means script
MaxRows == 2

\* largest --n_clusters given to the K-means script
MaxClusters == 3

\* longest label list given to calculate_cluster_stats on its own
MaxLabels == 4

\* round(score, 4) in format_results
RoundDigits == 4

\* round((overlap_count / top_k) * 100, 1) in compare_methods
PercentDigits == 1

VARIABLES
    cases,              \* cases[i] = id of the case in row i
    tfidf_matrix,       \* sequence of row vectors
    bert_embeddings,    \* sequence of row vectors
    image_embeddings,   \* [isNone |-> BOOLEAN, rows |-> sequence of row vectors]
    image_available,    \* BOOLEAN
    files,              \* files[a] = state of artifact a on disk at startup
    phase,              \* "importing", "serving" or "failed"
    tieOrder,           \* how this build's np.argsort leaves equal keys
    coordinates_cache,  \* _coordinates_cache of api/umap.py, by cache key
    inflight,           \* requests accepted by the event loop, handler not yet run
    data_files,         \* state of cases_cleaned_v2.json and cases_summary_v2.json
    app,                \* main.py: "starting" until lifespan has run load_data()
    cases_data,         \* main.py: sequence of case records
    summary_data,       \* main.py: sequence of summary records
    cli,                \* the run of scripts/kmeans_clustering.py
    req,                \* the last operation and its arguments
    similar,            \* the ranked tuples of the last operation
    resp                \* the last response: [status, results]

vars == <<cases, tfidf_matrix, bert_embeddings, image_embeddings,
          image_available, files, phase, tieOrder, coordinates_cache,
          inflight, data_files, app, cases_data, summary_data, cli,
          req, similar, resp>>

\* the module-level names that api/similarity.py binds while it is imported
moduleVars == <<cases, tfidf_matrix, bert_embeddings, image_embeddings,
                image_available>>

storeVars == <<moduleVars, files, phase, tieOrder>>

\* the module-level names of main.py and what its lifespan reads
mainVars == <<data_files, app, cases_data, summary_data>>

\* what an action of the similarity router leaves alone besides the store
restVars == <<coordinates_cache, mainVars, cli>>

\* ---------------------------------------------------------------- helpers
Min(a, b) == IF a < b THEN a ELSE b

Max(a, b) == IF a < b THEN b ELSE a

RECURSIVE Pow(_, _)
Pow(b, e) == IF e = 0 THEN 1 ELSE b * Pow(b, e - 1)

\* Python's s[:k]
SliceTo(s, k) ==
    IF k >= 0 THEN SubSeq(s, 1, Min(k, Len(s)))
    ELSE SubSeq(s, 1, Max(Len(s) + k, 0))

\* Python's s[1:]
SliceFrom1(s) == IF Len(s) = 0 THEN <<>> ELSE Tail(s)

\* Python's s[::-1]
RECURSIVE Reversed(_)
Reversed(s) == IF Len(s) = 0 THEN <<>> ELSE Append(Reversed(Tail(s)), Head(s))

\* ---------------------------------------------------------------- vectors
ZeroVec == <<0, 0>>

Vecs == {ZeroVec, <<5, 0>>, <<4, 3>>, <<0, 5>>}

\* the vectors a query can be: a stored row or an encoded text
QueryVecs == Vecs \cup {<<4, 0>>, <<0, 3>>, <<3, 4>>}

\* the rows a case can have: <<tfidf vector, bert vector, image vector>>
RowProfiles ==
    { << <<5, 0>>, <<5, 0>>, <<5, 0>> >>,
      << <<4, 3>>, <<5, 0>>, <<0, 5>> >>,
      << <<0, 5>>, <<4, 3>>, <<4, 3>> >>,
      << ZeroVec,  <<0, 5>>, ZeroVec >> }

Dot(u, v) == u[1] * v[1] + u[2] * v[2]

\* Euclidean norm, floored to an integer (exact for the vectors of Vecs)
Norm(u) ==
    CHOOSE n \in 0..(u[1] + u[2]) :
        n * n <= Dot(u, u) /\ (n + 1) * (n + 1) > Dot(u, u)

\* sklearn's cosine_similarity of two vectors: both are normalised first and
\* a zero vector stays zero, so its similarity to anything is 0
Cos(u, v) ==
    IF Norm(u) = 0 \/ Norm(v) = 0 THEN 0
    ELSE (Dot(u, v) * ScoreDen) \div (Norm(u) * Norm(v))

\* the similarity of every pair of model vectors
CosTable == [u \in QueryVecs, v \in Vecs |-> Cos(u, v)]

\* cosine_similarity(query, matrix).flatten()
RECURSIVE cosine_similarity(_, _)
cosine_similarity(q, M) ==
    IF Len(M) = 0 THEN <<>>
    ELSE <<CosTable[q, Head(M)]>> \o cosine_similarity(q, Tail(M))

\* ---------------------------------------------------------------- argsort
TieOrders == {"ascending", "descending"}

\* whether np.argsort puts row i before row j (ascending keys; the order of
\* equal keys is not specified for the default kind and depends on the build)
SortsBefore(s, i, j) ==
    \/ s[i] < s[j]
    \/ /\ s[i] = s[j]
       /\ IF tieOrder = "ascending" THEN i < j ELSE i > j

\* the rows of `rest` in sorted order
RECURSIVE SortRows(_, _)
SortRows(s, rest) ==
    IF rest = {} THEN <<>>
    ELSE LET first == CHOOSE i \in rest :
                          \A j \in rest \ {i} : SortsBefore(s, i, j)
         IN  <<first>> \o SortRows(s, rest \ {first})

\* np.argsort(s)
argsort(s) == SortRows(s, 1..Len(s))

\* the ranking without the reversal [::-1]
top_indices_ascending(sims, k) == SliceTo(argsort(sims), k)

\* the slice taken before the reversal: [:k][::-1]
top_indices_slice_first(sims, k) == Reversed(SliceTo(argsort(sims), k))

\* np.argsort(sims)[::-1][:k]
top_indices(sims, k) == SliceTo(Reversed(argsort(sims)), k)

\* ---------------------------------------------------------------- ranking
NoneMatrix == [isNone |-> TRUE, rows |-> <<>>]

Matrix(rows) == [isNone |-> FALSE, rows |-> rows]

Ok(value) == [status |-> 200, value |-> value]

Raise(code) == [status |-> code, value |-> <<>>]

get_case_by_id(case_id) ==
    IF \E i \in 1..Len(cases) : cases[i] = case_id
    THEN CHOOSE i \in 1..Len(cases) :
            /\ cases[i] = case_id
            /\ \A j \in 1..(i - 1) : cases[j] # case_id
    ELSE 0

\* [(idx, float(similarities[idx])) for idx in top_indices]
RECURSIVE WithScores(_, _)
WithScores(top, sims) ==
    IF Len(top) = 0 THEN <<>>
    ELSE << <<Head(top), sims[Head(top)]>> >> \o WithScores(Tail(top), sims)

RankBy(sims, k) == WithScores(top_indices(sims, k), sims)

find_similar_tfidf(query_vector, k) ==
    RankBy(cosine_similarity(query_vector, tfidf_matrix), k)

find_similar_bert(query_embedding, k) ==
    RankBy(cosine_similarity(query_embedding, bert_embeddings), k)

find_similar_image(query_embedding, k) ==
    IF image_embeddings.isNone THEN Raise(503)
    ELSE Ok(RankBy(cosine_similarity(query_embedding, image_embeddings.rows), k))

\* the image similarity weighted by text_weight too
combined_sims_one_weight(text_sims, img_sims, tw) ==
    [i \in 1..Len(text_sims) |-> tw * text_sims[i] + tw * img_sims[i]]

\* the two weights exchanged
combined_sims_swapped(text_sims, img_sims, tw) ==
    [i \in 1..Len(text_sims) |-> (WeightDen - tw) * text_sims[i] + tw * img_sims[i]]

\* (text_weight * text_sims) + (image_weight * img_sims), image_weight = 1 - text_weight
RECURSIVE combined_sims(_, _, _)
combined_sims(text_sims, img_sims, tw) ==
    IF Len(text_sims) = 0 THEN <<>>
    ELSE <<tw * Head(text_sims) + (WeightDen - tw) * Head(img_sims)>>
         \o combined_sims(Tail(text_sims), Tail(img_sims), tw)

\* [(idx, combined_sims[idx], text_sims[idx], img_sims[idx]) for idx in top_indices]
RECURSIVE WithHybridScores(_, _, _, _)
WithHybridScores(top, comb, text_sims, img_sims) ==
    IF Len(top) = 0 THEN <<>>
    ELSE << <<Head(top), comb[Head(top)], text_sims[Head(top)], img_sims[Head(top)]>> >>
         \o WithHybridScores(Tail(top), comb, text_sims, img_sims)

find_similar_hybrid(text_embedding, img_embedding, k, tw) ==
    IF image_embeddings.isNone
    THEN find_similar_bert(text_embedding, k)
    ELSE
        LET text_sims == cosine_similarity(text_embedding, bert_embeddings)
            img_sims  == cosine_similarity(img_embedding, image_embeddings.rows)
            comb      == combined_sims(text_sims, img_sims, tw)
        IN  WithHybridScores(top_indices(comb, k), comb, text_sims, img_sims)

\* ---------------------------------------------------------------- formatting
\* Python's round(num / den, digits) in units of 10^-digits (round half to even)
RoundTo(num, den, digits) ==
    LET scaled == num * Pow(10, digits)
        q == scaled \div den
        r == scaled - q * den
    IN  IF 2 * r < den THEN q
        ELSE IF 2 * r > den THEN q + 1
        ELSE IF q % 2 = 0 THEN q ELSE q + 1

\* enumerate(similar_cases) without the start value 1
format_results_from_zero(similar_cases, method) ==
    IF Len(similar_cases) > 0 /\ Len(similar_cases[1]) = 4
    THEN [rank \in 1..Len(similar_cases) |->
            [id |-> cases[similar_cases[rank][1]],
             similarity |->
                 RoundTo(similar_cases[rank][2], ScoreDen * WeightDen, RoundDigits),
             text_similarity |-> RoundTo(similar_cases[rank][3], ScoreDen, RoundDigits),
             image_similarity |-> RoundTo(similar_cases[rank][4], ScoreDen, RoundDigits),
             rank |-> rank - 1]]
    ELSE [rank \in 1..Len(similar_cases) |->
            [id |-> cases[similar_cases[rank][1]],
             similarity |-> RoundTo(similar_cases[rank][2], ScoreDen, RoundDigits),
             rank |-> rank - 1]]

format_results(similar_cases, method) ==
    IF Len(similar_cases) > 0 /\ Len(similar_cases[1]) = 4
    THEN [rank \in 1..Len(similar_cases) |->
            [id |-> cases[similar_cases[rank][1]],
             similarity |->
                 RoundTo(similar_cases[rank][2], ScoreDen * WeightDen, RoundDigits),
             text_similarity |-> RoundTo(similar_cases[rank][3], ScoreDen, RoundDigits),
             image_similarity |-> RoundTo(similar_cases[rank][4], ScoreDen, RoundDigits),
             rank |-> rank]]
    ELSE [rank \in 1..Len(similar_cases) |->
            [id |-> cases[similar_cases[rank][1]],
             similarity |-> RoundTo(similar_cases[rank][2], ScoreDen, RoundDigits),
             rank |-> rank]]

\* ---------------------------------------------------------------- query encoder
\* A query text is a sequence of tokens: " " is whitespace, "x" and "y" are
\* terms of the fitted vocabulary, "q" is a term outside it.
Texts ==
    {<<>>, <<" ">>, <<"x">>, <<"y">>, <<"q">>, <<"x", "y">>, <<" ", "x">>}

RECURSIVE Count(_, _)
Count(text, tok) ==
    IF Len(text) = 0 THEN 0
    ELSE (IF Head(text) = tok THEN 1 ELSE 0) + Count(Tail(text), tok)

RECURSIVE LStrip(_)
LStrip(text) ==
    IF Len(text) > 0 /\ Head(text) = " " THEN LStrip(Tail(text)) ELSE text

\* str.strip()
Strip(text) == Reversed(LStrip(Reversed(LStrip(text))))

\* tfidf_vectorizer.transform([text]): term counts weighted by the fitted idf
\* (4 for "x", 3 for "y"); terms outside the vocabulary are dropped
tfidf_transform(text) == <<4 * Count(text, "x"), 3 * Count(text, "y")>>

\* bert_model.encode([text])[0]: a dense vector for every text
bert_encode(text) ==
    IF Count(text, "x") > 0 /\ Count(text, "y") > 0 THEN <<4, 3>>
    ELSE IF Count(text, "x") > 0 THEN <<5, 0>>
    ELSE IF Count(text, "y") > 0 THEN <<0, 5>>
    ELSE <<3, 4>>

\* ---------------------------------------------------------------- handlers
NoResp ==
    [status |-> 0, results |-> <<>>, tfidf_results |-> <<>>, bert_results |-> <<>>,
     overlap_count |-> 0, overlap_percentage |-> 0]

\* what a handler hands back: the HTTP status, its local `similar`, the body
Response(status, sim, results) ==
    [status |-> status, similar |-> sim, body |-> [NoResp EXCEPT !.status = status,
                                                                 !.results = results]]

HTTPException(status) == Response(status, <<>>, <<>>)

\* similar = similar[1:] if similar[0][0] == idx else similar[:top_k]
skip_query(sim, idx, top_k) ==
    IF sim[1][1] = idx THEN SliceFrom1(sim) ELSE SliceTo(sim, top_k)

\* the hybrid branch also tests len(similar) > 0
skip_query_hybrid(sim, idx, top_k) ==
    IF Len(sim) > 0 /\ sim[1][1] = idx THEN SliceFrom1(sim) ELSE SliceTo(sim, top_k)

\* the handler without its availability test
image_never_unavailable == FALSE

\* if not image_available: raise HTTPException(status_code=503, ...)
image_unavailable == ~image_available

SimilarityResponse(sim, method) == Response(200, sim, format_results(sim, method))

\* the method branches of GET /similar/{case_id}, for the row idx of the case
similar_by_method(idx, method, top_k, tw) ==
    IF method = "tfidf" THEN
        SimilarityResponse(
            skip_query(find_similar_tfidf(tfidf_matrix[idx], top_k + 1), idx, top_k),
            method)
    ELSE IF method = "bert" THEN
        SimilarityResponse(
            skip_query(find_similar_bert(bert_embeddings[idx], top_k + 1), idx, top_k),
            method)
    ELSE IF method = "image" THEN
        IF image_unavailable THEN HTTPException(503)
        ELSE LET found == find_similar_image(image_embeddings.rows[idx], top_k + 1)
             IN  IF found.status # 200 THEN HTTPException(found.status)
                 ELSE SimilarityResponse(skip_query(found.value, idx, top_k), method)
    ELSE
        IF image_unavailable THEN HTTPException(503)
        ELSE SimilarityResponse(
                 skip_query_hybrid(
                     find_similar_hybrid(bert_embeddings[idx], image_embeddings.rows[idx],
                                         top_k + 1, tw),
                     idx, top_k),
                 method)

\* the handler testing the availability of the image matrix before the case id
find_similar_by_case_id_availability_first(case_id, method, top_k, tw) ==
    LET idx == get_case_by_id(case_id)
    IN  IF method \in {"image", "hybrid"} /\ image_unavailable THEN HTTPException(503)
        ELSE IF idx = 0 THEN HTTPException(404)
        ELSE similar_by_method(idx, method, top_k, tw)

\* GET /similar/{case_id}
find_similar_by_case_id(case_id, method, top_k, tw) ==
    LET idx == get_case_by_id(case_id)
    IN  IF idx = 0 THEN HTTPException(404)
        ELSE similar_by_method(idx, method, top_k, tw)

\* a test for the empty string only, without strip()
empty_text(text) == text = <<>>

\* not request.text.strip()
blank_text(text) == Strip(text) = <<>>

\* `similar` holding the TF-IDF list when the "both" branch formats it
both_similar_tfidf(tfidf_similar, bert_similar) == tfidf_similar

\* the local `similar` at `if request.method == "both"`: the BERT branch ran
\* last and overwrote the TF-IDF list
both_similar(tfidf_similar, bert_similar) == bert_similar

\* POST /search
search_by_text(text, method, top_k) ==
    IF blank_text(text) THEN HTTPException(400)
    ELSE
        LET tfidf_similar == find_similar_tfidf(tfidf_transform(text), top_k)
            bert_similar  == find_similar_bert(bert_encode(text), top_k)
            \* the local `similar` when the handler returns
            sim == IF method = "bert" THEN bert_similar
                   ELSE IF method = "both" THEN both_similar(tfidf_similar, bert_similar)
                   ELSE IF method = "tfidf" THEN tfidf_similar
                   ELSE <<>>
            results == IF method = "tfidf" THEN format_results(tfidf_similar, "tfidf")
                       ELSE IF method = "bert" THEN format_results(bert_similar, "bert")
                       ELSE IF method = "both" THEN format_results(sim, "both")
                       ELSE <<>>
        IN  Response(200, sim, results)

\* the ids of the cases of a ranked list, as a set
IdSet(sim) == {cases[sim[r][1]] : r \in 1..Len(sim)}

\* the percentage cut to a whole number
overlap_percentage_whole(overlap_count, top_k) ==
    ((overlap_count * 100) \div top_k) * Pow(10, PercentDigits)

\* round((overlap_count / top_k) * 100, 1), in tenths of a percent
overlap_percentage(overlap_count, top_k) ==
    RoundTo(overlap_count * 100, top_k, PercentDigits)

\* GET /compare/{case_id}
compare_methods(case_id, top_k) ==
    LET idx == get_case_by_id(case_id)
    IN  IF idx = 0 THEN HTTPException(404)
        ELSE
            LET tfidf_similar ==
                    SliceFrom1(find_similar_tfidf(tfidf_matrix[idx], top_k + 1))
                bert_similar ==
                    SliceFrom1(find_similar_bert(bert_embeddings[idx], top_k + 1))
                overlap_count ==
                    Cardinality(IdSet(tfidf_similar) \cap IdSet(bert_similar))
            IN  [status |-> 200, similar |-> bert_similar,
                 body |-> [status |-> 200, results |-> <<>>,
                           tfidf_results |-> format_results(tfidf_similar, "tfidf"),
                           bert_results |-> format_results(bert_similar, "bert"),
                           overlap_count |-> overlap_count,
                           overlap_percentage |->
                               overlap_percentage(overlap_count, top_k)]]

\* ---------------------------------------------------------------- state machine
Methods == {"tfidf", "bert", "image", "hybrid"}

SearchMethods == {"tfidf", "bert", "both", "image", "hybrid"}

Rankers ==
    {"find_similar_tfidf", "find_similar_bert", "find_similar_image",
     "find_similar_hybrid"}

\* the ids of the loaded cases are 10, 20, ...; one more id is known to no store
IdOfRow(i) == 10 * i

CaseIds == {IdOfRow(i) : i \in 1..(MaxCases + 1)}

\* file, data, lookup, key: what a UMAP handler finds on disk and its path key;
\* path, q, limit, offset, labels_file: the URL and what a handler of main.py
\* finds on disk (file and lookup are then the cluster file and its content)
NoReq ==
    [op |-> "none", case_id |-> 0, method |-> "none", top_k |-> 0,
     text_weight |-> 0, text |-> <<>>, q_text |-> ZeroVec, q_image |-> ZeroVec,
     file |-> "none", data |-> "none", lookup |-> <<>>, key |-> "none",
     path |-> <<>>, q |-> "none", limit |-> 0, offset |-> 0, labels_file |-> "none"]

\* ------------------------------------------------------------ api/umap.py
UmapMethods == {"text", "image", "hybrid"}

\* the keys that the handlers store under
CacheKeys == UmapMethods \cup {"clinical"}

\* what json.load can return for a coordinates file
FileData == {"run_a", "run_b"}

NoData == "none"

\* _coordinates_cache = {}
EmptyCache == [k \in CacheKeys |-> NoData]

UmapResult(status, body, cache) == [status |-> status, body |-> body, cache |-> cache]

\* file, data: the state and the content of umap_coordinates_{method}.json
\* the loader without `if method in _coordinates_cache`
load_umap_coordinates_uncached(method, file, data) ==
    IF file = "missing" THEN UmapResult(404, <<>>, coordinates_cache)
    ELSE IF file = "ok"
    THEN UmapResult(200, <<data>>, [coordinates_cache EXCEPT ![method] = data])
    ELSE UmapResult(500, <<>>, coordinates_cache)

load_umap_coordinates(method, file, data) ==
    IF coordinates_cache[method] # NoData
    THEN UmapResult(200, <<coordinates_cache[method]>>, coordinates_cache)
    ELSE IF file = "missing" THEN UmapResult(404, <<>>, coordinates_cache)
    ELSE IF file = "ok"
    THEN UmapResult(200, <<data>>, [coordinates_cache EXCEPT ![method] = data])
    ELSE UmapResult(500, <<>>, coordinates_cache)

\* GET /coordinates
get_umap_coordinates(method, file, data) ==
    IF method \notin UmapMethods THEN UmapResult(400, <<>>, coordinates_cache)
    ELSE load_umap_coordinates(method, file, data)

\* GET /methods: only tests which files exist
get_available_methods == UmapResult(200, <<>>, coordinates_cache)

\* GET /clinical-coordinates; file, data: umap_clinical_enhanced.json
get_clinical_umap_coordinates(file, data) ==
    IF coordinates_cache["clinical"] # NoData
    THEN UmapResult(200, <<coordinates_cache["clinical"]>>, coordinates_cache)
    ELSE IF file = "missing" THEN UmapResult(404, <<>>, coordinates_cache)
    ELSE IF file = "ok"
    THEN UmapResult(200, <<data>>, [coordinates_cache EXCEPT !["clinical"] = data])
    ELSE UmapResult(500, <<>>, coordinates_cache)

\* the keys and the precomputed lists of case_similarity_lookup.json
LookupKeys == {"case_a", "case_b"}

Neighbours == <<"n1", "n2", "n3", "n4">>

LookupLists == {SliceTo(Neighbours, n) : n \in 0..MaxList}

LookupFiles == UNION {[D -> LookupLists] : D \in SUBSET LookupKeys}

\* the handler without `except HTTPException: raise`: the generic except
\* clause turns the 404 raised inside the try block into 500
get_similar_cases_generic_except(file, lookup, case_id, top_k) ==
    IF file = "missing" THEN UmapResult(404, <<>>, coordinates_cache)
    ELSE IF file # "ok" THEN UmapResult(500, <<>>, coordinates_cache)
    ELSE IF case_id \notin DOMAIN lookup THEN UmapResult(500, <<>>, coordinates_cache)
    ELSE UmapResult(200, SliceTo(lookup[case_id], top_k), coordinates_cache)

\* GET /similar-cases/{case_id}; file, lookup: the state and the content of
\* case_similarity_lookup.json
get_similar_cases(file, lookup, case_id, top_k) ==
    IF file = "missing" THEN UmapResult(404, <<>>, coordinates_cache)
    ELSE IF file # "ok" THEN UmapResult(500, <<>>, coordinates_cache)
    ELSE IF case_id \notin DOMAIN lookup THEN UmapResult(404, <<>>, coordinates_cache)
    ELSE UmapResult(200, SliceTo(lookup[case_id], top_k), coordinates_cache)

\* GET /statistics: reads umap_clinical_enhanced.json each time
get_clinical_statistics(file, data) ==
    IF file = "ok" THEN UmapResult(200, <<data>>, coordinates_cache)
    ELSE UmapResult(500, <<>>, coordinates_cache)

\* ------------------------------------------------------------ main.py
DataFiles == {"cases_cleaned_v2", "cases_summary_v2"}

\* cases_data = [] and summary_data = [] at module level; lifespan has not run
MainNotStarted ==
    /\ data_files = [f \in DataFiles |-> "ok"]
    /\ app = "starting"
    /\ cases_data = <<>>
    /\ summary_data = <<>>

\* Python's None where a string is expected
None == "None"

Diagnoses == {"", "flu", "cold"}

RecordIds == <<"id1", "id2", "id3", "id4">>

\* what json.load can return for cases_summary_v2.json
SummaryFiles ==
    UNION {{[i \in 1..k |-> [id |-> RecordIds[i], diagnosis |-> d[i]]] :
                d \in [1..k -> Diagnoses]} : k \in 0..MaxSummaries}

\* what json.load can return for cases_cleaned_v2.json
CasesFiles == {[i \in 1..k |-> [id |-> RecordIds[i]]] : k \in 0..MaxSummaries}

\* load_data(): each file in its own try block, [] when the load raised
load_data(cases_file, summary_file) ==
    [cases_data |-> IF data_files["cases_cleaned_v2"] = "ok" THEN cases_file ELSE <<>>,
     summary_data |-> IF data_files["cases_summary_v2"] = "ok" THEN summary_file
                      ELSE <<>>]

\* s[lo:hi] for lo >= 0 and hi >= 0
RECURSIVE Slice(_, _, _)
Slice(s, lo, hi) ==
    IF hi <= lo \/ lo >= Len(s) THEN <<>>
    ELSE <<s[lo + 1]>> \o Slice(s, lo + 1, hi)

MainResult(status, body) == [status |-> status, body |-> body]

\* GET /
root == MainResult(200, <<>>)

\* GET /api/cases/summary
get_cases_summary(limit, offset) ==
    IF summary_data = <<>> THEN MainResult(500, <<>>)
    ELSE MainResult(200, Slice(summary_data, offset, offset + limit))

\* GET /api/cases/summary_all
get_cases_summary_all ==
    IF summary_data = <<>> THEN MainResult(500, <<>>)
    ELSE MainResult(200, summary_data)

\* range(25)
NumClusters == 25

ClusterIds == {0, 24}

Frequencies == {0, 1, 2}

\* zip(diagnoses, clusters, frequencies) of diagnosis_biobert_clusters.json
ClusterEntries ==
    [diagnosis : Diagnoses, cluster : ClusterIds, frequency : Frequencies]

ClusterFiles == UNION {[1..k -> ClusterEntries] : k \in 0..MaxEntries}

NoBest == [diagnosis |-> None, frequency |-> 0]

\* the inner loop with `freq >= best_frequency`: the last maximum wins
RECURSIVE best_of_last_maximum(_, _, _)
best_of_last_maximum(entries, cluster_id, n) ==
    IF n = 0 THEN NoBest
    ELSE LET best == best_of_last_maximum(entries, cluster_id, n - 1)
         IN  IF entries[n].cluster = cluster_id /\ entries[n].frequency >= best.frequency
             THEN [diagnosis |-> entries[n].diagnosis, frequency |-> entries[n].frequency]
             ELSE best

\* best_diagnosis and best_frequency after the first n entries of the zip
RECURSIVE best_of(_, _, _)
best_of(entries, cluster_id, n) ==
    IF n = 0 THEN NoBest
    ELSE LET best == best_of(entries, cluster_id, n - 1)
         IN  IF entries[n].cluster = cluster_id /\ entries[n].frequency > best.frequency
             THEN [diagnosis |-> entries[n].diagnosis, frequency |-> entries[n].frequency]
             ELSE best

\* `if best_diagnosis:`
Truthy(text) == text # None /\ text # ""

\* next((c for c in summary_data if c.get('diagnosis') == best_diagnosis), None):
\* the position of the first match, 0 for None
RECURSIVE first_with(_, _, _)
first_with(summaries, diagnosis, from) ==
    IF from > Len(summaries) THEN 0
    ELSE IF summaries[from].diagnosis = diagnosis THEN from
    ELSE first_with(summaries, diagnosis, from + 1)

\* the dict cluster_representatives, as the set of its values
cluster_representatives(entries) ==
    {[cluster_id |-> c,
      case |-> summary_data[first_with(summary_data,
                                       best_of(entries, c, Len(entries)).diagnosis, 1)]] :
        c \in {c \in 0..(NumClusters - 1) :
                  /\ Truthy(best_of(entries, c, Len(entries)).diagnosis)
                  /\ first_with(summary_data,
                                best_of(entries, c, Len(entries)).diagnosis, 1) # 0}}

\* what the try block returns or raises
representatives_try(cluster_file, entries, labels_file) ==
    IF cluster_file = "missing" THEN [raised |-> 404, value |-> {}]
    ELSE IF cluster_file # "ok" \/ labels_file = "unreadable"
    THEN [raised |-> 500, value |-> {}]
    ELSE [raised |-> 0, value |-> cluster_representatives(entries)]

\* GET /api/cases/cluster-representatives: `except Exception` also catches
\* the HTTPException raised inside the try block
get_cluster_representatives(cluster_file, entries, labels_file) ==
    IF representatives_try(cluster_file, entries, labels_file).raised # 0
    THEN MainResult(500, {})
    ELSE MainResult(200, representatives_try(cluster_file, entries, labels_file).value)

\* GET /api/cases/{case_id}
get_case_detail(case_id) ==
    IF cases_data = <<>> THEN MainResult(500, <<>>)
    ELSE IF \A i \in 1..Len(cases_data) : cases_data[i].id # case_id
    THEN MainResult(404, <<>>)
    ELSE MainResult(200, <<[id |-> case_id]>>)

RECURSIVE with_diagnosis(_, _, _)
with_diagnosis(summaries, query, n) ==
    IF n = 0 THEN <<>>
    ELSE IF summaries[n].diagnosis = query
    THEN Append(with_diagnosis(summaries, query, n - 1), summaries[n])
    ELSE with_diagnosis(summaries, query, n - 1)

\* GET /api/cases/search; the queries of the model are whole diagnoses, for
\* which `query in diagnosis` is equality
search_cases(q, limit) ==
    IF summary_data = <<>> THEN MainResult(500, <<>>)
    ELSE IF ~Truthy(q) THEN MainResult(200, Slice(summary_data, 0, limit))
    ELSE MainResult(200, Slice(with_diagnosis(summary_data, q, Len(summary_data)), 0, limit))

\* GET /api/stats
get_statistics ==
    IF cases_data = <<>> THEN MainResult(500, <<>>) ELSE MainResult(200, <<>>)

\* the path operations in the order of their decorators
Routes ==
    << [path |-> <<>>, endpoint |-> "root"],
       [path |-> <<"api", "cases", "summary">>, endpoint |-> "get_cases_summary"],
       [path |-> <<"api", "cases", "summary_all">>, endpoint |-> "get_cases_summary_all"],
       [path |-> <<"api", "cases", "cluster-representatives">>,
        endpoint |-> "get_cluster_representatives"],
       [path |-> <<"api", "cases", "{case_id}">>, endpoint |-> "get_case_detail"],
       [path |-> <<"api", "cases", "search">>, endpoint |-> "search_cases"],
       [path |-> <<"api", "stats">>, endpoint |-> "get_statistics"] >>

\* a route matches when every segment is equal or a path parameter
Matches(route_path, path) ==
    /\ Len(route_path) = Len(path)
    /\ \A i \in 1..Len(path) : route_path[i] = "{case_id}" \/ route_path[i] = path[i]

\* the first route that matches, in declaration order; "not_found" if none
RECURSIVE dispatch_from(_, _)
dispatch_from(path, i) ==
    IF i > Len(Routes) THEN "not_found"
    ELSE IF Matches(Routes[i].path, path) THEN Routes[i].endpoint
    ELSE dispatch_from(path, i + 1)

dispatch(path) == dispatch_from(path, 1)

\* the URLs that clients request
Paths ==
    {<<>>, <<"api", "stats">>, <<"api", "unknown">>}
    \cup {<<"api", "cases", s>> :
            s \in {"summary", "summary_all", "cluster-representatives", "search",
                   "id1", "id2", "id9"}}

\* the endpoint that the router selected, called with the request's values
call_endpoint(endpoint, request) ==
    IF endpoint = "root" THEN root
    ELSE IF endpoint = "get_cases_summary"
    THEN get_cases_summary(request.limit, request.offset)
    ELSE IF endpoint = "get_cases_summary_all" THEN get_cases_summary_all
    ELSE IF endpoint = "get_cluster_representatives"
    THEN get_cluster_representatives(request.file, request.lookup, request.labels_file)
    ELSE IF endpoint = "get_case_detail" THEN get_case_detail(request.path[3])
    ELSE IF endpoint = "search_cases" THEN search_cases(request.q, request.limit)
    ELSE IF endpoint = "get_statistics" THEN get_statistics
    ELSE MainResult(404, <<>>)

\* ------------------------------------------- scripts/kmeans_clustering.py
\* the script has not been started
NoCli == [pc |-> "none"]

\* a record of the data file: a numerical and a boolean column, null allowed
RowValues ==
    [complexity_score : {"number", "null"},
     has_multiple_images : {"true", "false", "null"}]

\* what json.load can return for --data_path
CliDataFiles == UNION {[1..n -> RowValues] : n \in 0..MaxRows}

\* values of --features; case_rating is in none of the three feature lists
FeatureLists ==
    {<<"complexity_score">>, <<"has_multiple_images">>, <<"case_rating">>,
     <<"complexity_score", "has_multiple_images">>}

\* load_data(data_path) of the script: the frame, or the error dict
cli_load_data(data_file, data) ==
    IF data_file = "ok" THEN [error |-> None, df |-> data]
    ELSE [error |-> "Failed to load data", df |-> <<>>]

\* `feature in df.columns` for a feature of the three lists; a frame built
\* from an empty list has no columns
InColumns(df, feature) ==
    Len(df) > 0 /\ feature \in {"complexity_score", "has_multiple_images"}

RECURSIVE valid_features(_, _, _)
valid_features(df, selected_features, n) ==
    IF n = 0 THEN <<>>
    ELSE IF InColumns(df, selected_features[n])
    THEN Append(valid_features(df, selected_features, n - 1), selected_features[n])
    ELSE valid_features(df, selected_features, n - 1)

\* prepare_features: df[feature].astype(int) raises on a null value, outside
\* any try block; otherwise (feature_names, error)
prepare_features(df, selected_features) ==
    LET feature_names == valid_features(df, selected_features, Len(selected_features))
    IN  [raised |-> \E f \in 1..Len(feature_names), i \in 1..Len(df) :
                        /\ feature_names[f] = "has_multiple_images"
                        /\ df[i].has_multiple_images = "null",
         feature_names |-> feature_names,
         error |-> IF feature_names = <<>> THEN "No valid features selected" ELSE None]

\* whether sklearn raises inside the try block of perform_kmeans: NaN in the
\* matrix, n_clusters < 1 or more clusters than samples
kmeans_raises(df, feature_names, n_clusters) ==
    \/ n_clusters < 1
    \/ n_clusters > Len(df)
    \/ \E f \in 1..Len(feature_names), i \in 1..Len(df) :
        /\ feature_names[f] = "complexity_score"
        /\ df[i].complexity_score = "null"

\* the label lists that fit_predict can return
KmeansLabels(df, n_clusters) == [1..Len(df) -> 0..(n_clusters - 1)]

RECURSIVE CountLabel(_, _, _)
CountLabel(cluster_labels, cluster_id, n) ==
    IF n = 0 THEN 0
    ELSE CountLabel(cluster_labels, cluster_id, n - 1)
         + (IF cluster_labels[n] = cluster_id THEN 1 ELSE 0)

\* round(..., 2)
StatsDigits == 2

\* calculate_cluster_stats: one entry for each cluster_id in
\* range(len(set(cluster_labels))); percentage in hundredths of a percent
calculate_cluster_stats(cluster_labels) ==
    [cluster_id \in 0..(Cardinality({cluster_labels[i] : i \in 1..Len(cluster_labels)}) - 1) |->
        [size |-> CountLabel(cluster_labels, cluster_id, Len(cluster_labels)),
         percentage |-> RoundTo(CountLabel(cluster_labels, cluster_id, Len(cluster_labels)) * 100,
                                Len(cluster_labels), StatsDigits)]]

\* min(100, len(df))
SampleLimit == 100

\* the success object that main() prints
cli_result(df, cluster_labels) ==
    [success |-> TRUE,
     total_samples |-> Len(df),
     cluster_labels |-> cluster_labels,
     cluster_statistics |-> calculate_cluster_stats(cluster_labels),
     cases_with_clusters |-> SliceTo(cluster_labels, Min(SampleLimit, Len(df)))]

\* the object printed before sys.exit(1)
cli_error(message) == [success |-> FALSE, error |-> message]

\* the script ends: what it printed on stdout and its exit status
Exited(run, stdout, exit_status) ==
    [run EXCEPT !.pc = "exited", !.stdout = stdout, !.exit_status = exit_status]

\* ------------------------------------------------------------ startup
\* what the module-level code of api/similarity.py reads
Artifacts ==
    {"cases_ml_ready", "case_ids", "tfidf_features", "tfidf_vectorizer",
     "text_embeddings_bert", "bert_model", "image_embeddings_resnet50"}

\* loaded outside any try block
Required == Artifacts \ {"image_embeddings_resnet50"}

FileStates == {"ok", "missing", "unreadable"}

\* a loader that lets the BERT model be absent
required_loaded_without_model(f) ==
    \A a \in Required \ {"bert_model"} : f[a] = "ok"

\* every load statement of lines 26-47 returned instead of raising
required_loaded(f) == \A a \in Required : f[a] = "ok"

\* image_available set as soon as the file exists, before np.load
load_image_exists(state, rows) ==
    [image_embeddings |-> IF state = "ok" THEN Matrix(rows) ELSE NoneMatrix,
     image_available |-> state # "missing"]

\* the try block of the optional image matrix
load_image(state, rows) ==
    IF state = "ok"
    THEN [image_embeddings |-> Matrix(rows), image_available |-> TRUE]
    ELSE [image_embeddings |-> NoneMatrix, image_available |-> FALSE]

\* `from api.similarity import router` in main.py: the module body runs once;
\* an exception of a required load leaves the import, and main.py has no handler
module_import(case_rows, tfidf_rows, bert_rows, image_rows) ==
    /\ phase = "importing"
    /\ IF required_loaded(files)
       THEN /\ cases' = case_rows
            /\ tfidf_matrix' = tfidf_rows
            /\ bert_embeddings' = bert_rows
            /\ image_embeddings' =
                   load_image(files["image_embeddings_resnet50"], image_rows).image_embeddings
            /\ image_available' =
                   load_image(files["image_embeddings_resnet50"], image_rows).image_available
            /\ phase' = "serving"
       ELSE /\ phase' = "failed"
            /\ UNCHANGED moduleVars
    /\ UNCHANGED <<files, tieOrder, restVars, inflight, req, similar, resp>>

RECURSIVE Column(_, _, _)
Column(rows, c, n) ==
    IF n = 0 THEN <<>> ELSE Append(Column(rows, c, n - 1), rows[n][c])

RECURSIVE IdsTo(_)
IdsTo(n) == IF n = 0 THEN <<>> ELSE Append(IdsTo(n - 1), IdOfRow(n))

\* the import with artifacts written by one run of the feature pipeline:
\* every file has one row per case
ImportSimilarity ==
    \E n \in 1..MaxCases :
        \E rows \in [1..n -> RowProfiles] :
            module_import(IdsTo(n), Column(rows, 1, n), Column(rows, 2, n),
                          Column(rows, 3, n))

\* the import with files of any length: the loads do not compare shapes
ImportAnyRows ==
    \E p \in RowProfiles :
        \E nc \in 1..MaxCases, nt \in 1..MaxCases, nb \in 1..MaxCases, ni \in 1..MaxCases :
            module_import(IdsTo(nc),
                          Column([i \in 1..nt |-> p], 1, nt),
                          Column([i \in 1..nb |-> p], 2, nb),
                          Column([i \in 1..ni |-> p], 3, ni))

\* the process before main.py is imported
InitStartup ==
    /\ files \in [Artifacts -> FileStates]
    /\ phase = "importing"
    /\ cases = <<>>
    /\ tfidf_matrix = <<>>
    /\ bert_embeddings = <<>>
    /\ image_embeddings = NoneMatrix
    /\ image_available = FALSE
    /\ tieOrder \in TieOrders
    /\ coordinates_cache = EmptyCache
    /\ inflight = {}
    /\ MainNotStarted
    /\ cli = NoCli
    /\ req = NoReq
    /\ similar = <<>>
    /\ resp = NoResp

\* the process after a successful import, every file with one row per case
Init ==
    /\ \E n \in 1..MaxCases :
        \E rows \in [1..n -> RowProfiles] :
            /\ cases = [i \in 1..n |-> IdOfRow(i)]
            /\ tfidf_matrix = [i \in 1..n |-> rows[i][1]]
            /\ bert_embeddings = [i \in 1..n |-> rows[i][2]]
            /\ \E loaded \in BOOLEAN :
                /\ image_available = loaded
                /\ image_embeddings =
                       IF loaded THEN Matrix([i \in 1..n |-> rows[i][3]])
                       ELSE NoneMatrix
                /\ files = [a \in Artifacts |->
                               IF a \in Required \/ loaded THEN "ok" ELSE "missing"]
    /\ phase = "serving"
    /\ tieOrder \in TieOrders
    /\ coordinates_cache = EmptyCache
    /\ inflight = {}
    /\ MainNotStarted
    /\ cli = NoCli
    /\ req = NoReq
    /\ similar = <<>>
    /\ resp = NoResp

\* the event loop runs one handler at a time, to completion; the routes exist
\* only in a process whose import of api.similarity returned
Idle == phase = "serving" /\ req.op = "none"

Handled(request, out) ==
    /\ req' = request
    /\ similar' = out.similar
    /\ resp' = out.body
    /\ UNCHANGED <<storeVars, restVars, inflight>>

GetSimilar ==
    /\ Idle
    /\ \E case_id \in CaseIds, method \in Methods, top_k \in 1..MaxK :
        \E tw \in IF method = "hybrid" THEN 0..WeightDen ELSE {WeightDen} :
            Handled([NoReq EXCEPT !.op = "similar", !.case_id = case_id,
                                  !.method = method, !.top_k = top_k,
                                  !.text_weight = tw],
                    find_similar_by_case_id(case_id, method, top_k, tw))

PostSearch ==
    /\ Idle
    /\ \E text \in Texts, method \in SearchMethods, top_k \in (-1)..MaxK :
            Handled([NoReq EXCEPT !.op = "search", !.text = text,
                                  !.method = method, !.top_k = top_k],
                    search_by_text(text, method, top_k))

GetCompare ==
    /\ Idle
    /\ \E case_id \in CaseIds, top_k \in 1..MaxK :
            Handled([NoReq EXCEPT !.op = "compare", !.case_id = case_id,
                                  !.top_k = top_k],
                    compare_methods(case_id, top_k))

\* what a ranking function called on its own returns or raises
call_ranker(fn, q_text, q_image, k, tw) ==
    IF fn = "find_similar_tfidf" THEN Response(200, find_similar_tfidf(q_text, k), <<>>)
    ELSE IF fn = "find_similar_bert" THEN Response(200, find_similar_bert(q_text, k), <<>>)
    ELSE IF fn = "find_similar_image" THEN
        LET found == find_similar_image(q_image, k)
        IN  Response(found.status, found.value, <<>>)
    ELSE Response(200, find_similar_hybrid(q_text, q_image, k, tw), <<>>)

\* a ranking function called on its own, with any query vector(s)
CallRanker ==
    /\ Idle
    /\ \E fn \in Rankers, k \in 1..(MaxK + 1) :
        \E q_text \in IF fn = "find_similar_image" THEN {ZeroVec} ELSE Vecs,
           q_image \in IF fn \in {"find_similar_image", "find_similar_hybrid"}
                       THEN Vecs ELSE {ZeroVec},
           tw \in IF fn = "find_similar_hybrid" THEN 0..WeightDen ELSE {WeightDen} :
            Handled([NoReq EXCEPT !.op = fn, !.top_k = k, !.text_weight = tw,
                                  !.q_text = q_text, !.q_image = q_image],
                    call_ranker(fn, q_text, q_image, k, tw))

\* the response has been sent; the next request can be taken
Respond ==
    /\ req.op # "none"
    /\ req' = NoReq
    /\ similar' = <<>>
    /\ resp' = NoResp
    /\ UNCHANGED <<storeVars, restVars, inflight>>

Next ==
    \/ GetSimilar
    \/ PostSearch
    \/ GetCompare
    \/ CallRanker
    \/ Respond

Spec == Init /\ [][Next]_vars

\* --------------------------------------------- both routers, one process
UmapHandled(request, out) ==
    /\ req' = request
    /\ similar' = <<>>
    /\ resp' = [NoResp EXCEPT !.status = out.status, !.results = out.body]
    /\ coordinates_cache' = out.cache
    /\ UNCHANGED <<storeVars, mainVars, cli, inflight>>

GetUmapCoordinates ==
    /\ Idle
    /\ \E method \in UmapMethods \cup {"pca"}, file \in FileStates, data \in FileData :
        UmapHandled([NoReq EXCEPT !.op = "umap_coordinates", !.method = method,
                                  !.file = file, !.data = data],
                    get_umap_coordinates(method, file, data))

GetUmapMethods ==
    /\ Idle
    /\ UmapHandled([NoReq EXCEPT !.op = "umap_methods"], get_available_methods)

GetClinicalCoordinates ==
    /\ Idle
    /\ \E file \in FileStates, data \in FileData :
        UmapHandled([NoReq EXCEPT !.op = "umap_clinical", !.file = file,
                                  !.data = data],
                    get_clinical_umap_coordinates(file, data))

GetUmapSimilarCases ==
    /\ Idle
    /\ \E file \in FileStates, lookup \in LookupFiles, case_id \in LookupKeys,
          top_k \in (-1)..(MaxList + 1) :
        UmapHandled([NoReq EXCEPT !.op = "umap_similar_cases", !.file = file,
                                  !.lookup = lookup, !.key = case_id,
                                  !.top_k = top_k],
                    get_similar_cases(file, lookup, case_id, top_k))

GetUmapStatistics ==
    /\ Idle
    /\ \E file \in FileStates, data \in FileData :
        UmapHandled([NoReq EXCEPT !.op = "umap_statistics", !.file = file,
                                  !.data = data],
                    get_clinical_statistics(file, data))

\* a store of one case, so that the cache states stay enumerable
InitApi == Init /\ Len(cases) = 1

NextApi ==
    \/ GetSimilar
    \/ PostSearch
    \/ GetCompare
    \/ GetUmapCoordinates
    \/ GetUmapMethods
    \/ GetClinicalCoordinates
    \/ GetUmapSimilarCases
    \/ GetUmapStatistics
    \/ Respond

SpecApi == InitApi /\ [][NextApi]_vars

\* ------------------------------------- concurrent similarity requests
\* what concurrent clients send: a known and an unknown case, all three routes
ConcurrentRequests ==
    {[NoReq EXCEPT !.op = "similar", !.case_id = c, !.method = m, !.top_k = MaxK,
                   !.text_weight = IF m = "hybrid" THEN 1 ELSE WeightDen] :
        c \in {IdOfRow(2), IdOfRow(MaxCases + 1)}, m \in {"tfidf", "image", "hybrid"}}
    \cup
    {[NoReq EXCEPT !.op = "search", !.text = t, !.method = m, !.top_k = MaxK] :
        t \in {<<" ">>, <<"x", "y">>}, m \in {"bert", "hybrid"}}
    \cup
    {[NoReq EXCEPT !.op = "compare", !.case_id = c, !.top_k = 1] :
        c \in {IdOfRow(2), IdOfRow(MaxCases + 1)}}

\* the handler of a request, called on its own
serve(r) ==
    IF r.op = "similar"
    THEN find_similar_by_case_id(r.case_id, r.method, r.top_k, r.text_weight)
    ELSE IF r.op = "search" THEN search_by_text(r.text, r.method, r.top_k)
    ELSE compare_methods(r.case_id, r.top_k)

\* a handler that switches the module-level image flag off while it runs
run_handler_clears_flag(r) ==
    /\ req' = r
    /\ similar' = serve(r).similar
    /\ resp' = serve(r).body
    /\ image_available' = FALSE
    /\ UNCHANGED <<cases, tfidf_matrix, bert_embeddings, image_embeddings,
                   files, phase, tieOrder, restVars>>

\* the coroutine of one request: no await inside, so it runs to its return
\* without another handler in between, reading the module-level store
run_handler(r) ==
    /\ req' = r
    /\ similar' = serve(r).similar
    /\ resp' = serve(r).body
    /\ UNCHANGED <<storeVars, restVars>>

\* a request arrives while others wait or a response is being sent
Accept ==
    /\ phase = "serving"
    /\ Cardinality(inflight) < MaxInflight
    /\ \E r \in ConcurrentRequests \ inflight :
        inflight' = inflight \cup {r}
    /\ UNCHANGED <<storeVars, restVars, req, similar, resp>>

\* the event loop picks any waiting request
RunHandler ==
    /\ Idle
    /\ \E r \in inflight :
        /\ run_handler(r)
        /\ inflight' = inflight \ {r}

InitConcurrent == Init /\ Len(cases) = 2

NextConcurrent ==
    \/ Accept
    \/ RunHandler
    \/ Respond

SpecConcurrent == InitConcurrent /\ [][NextConcurrent]_vars

\* ------------------------------------------------------ main.py as an app
\* one store of api/similarity.py, which main.py does not read
SmallStore ==
    /\ cases = <<IdOfRow(1)>>
    /\ tfidf_matrix = <<ZeroVec>>
    /\ bert_embeddings = <<<<0, 5>>>>
    /\ image_embeddings = NoneMatrix
    /\ image_available = FALSE
    /\ files = [a \in Artifacts |-> IF a \in Required THEN "ok" ELSE "missing"]
    /\ phase = "serving"
    /\ tieOrder = "ascending"
    /\ coordinates_cache = EmptyCache
    /\ inflight = {}
    /\ req = NoReq
    /\ similar = <<>>
    /\ resp = NoResp

\* main.py imported, lifespan not yet entered
InitMain ==
    /\ SmallStore
    /\ cli = NoCli
    /\ data_files \in [DataFiles -> FileStates]
    /\ app = "starting"
    /\ cases_data = <<>>
    /\ summary_data = <<>>

\* lifespan: load_data(), then yield; the app serves whatever load_data left
Lifespan ==
    /\ app = "starting"
    /\ \E cases_file \in CasesFiles, summary_file \in SummaryFiles :
        /\ cases_data' = load_data(cases_file, summary_file).cases_data
        /\ summary_data' = load_data(cases_file, summary_file).summary_data
    /\ app' = "serving"
    /\ UNCHANGED <<storeVars, coordinates_cache, cli, inflight, data_files,
                   req, similar, resp>>

\* query parameters and disk contents that go with a URL
RequestsFor(path) ==
    IF path = <<"api", "cases", "summary">>
    THEN {[NoReq EXCEPT !.path = path, !.limit = l, !.offset = o] :
            l \in 0..MaxSummaries, o \in 0..1}
    ELSE IF path = <<"api", "cases", "search">>
    THEN {[NoReq EXCEPT !.path = path, !.q = q, !.limit = l] :
            q \in {None, "flu"}, l \in {1, MaxSummaries}}
    ELSE IF path = <<"api", "cases", "cluster-representatives">>
    THEN {[NoReq EXCEPT !.path = path, !.file = "ok", !.lookup = entries,
                        !.labels_file = lf] :
            entries \in ClusterFiles, lf \in FileStates}
         \cup {[NoReq EXCEPT !.path = path, !.file = f, !.labels_file = "ok"] :
                 f \in FileStates \ {"ok"}}
    ELSE {[NoReq EXCEPT !.path = path]}

MainHandled(request, out) ==
    /\ req' = request
    /\ similar' = <<>>
    /\ resp' = [NoResp EXCEPT !.status = out.status, !.results = out.body]
    /\ UNCHANGED <<storeVars, coordinates_cache, mainVars, cli, inflight>>

\* a GET request: the router selects the endpoint, the endpoint runs
HttpGet ==
    /\ app = "serving"
    /\ req.op = "none"
    /\ \E path \in Paths :
        \E r \in RequestsFor(path) :
            MainHandled([r EXCEPT !.op = dispatch(path)],
                        call_endpoint(dispatch(path), r))

NextMain ==
    \/ Lifespan
    \/ HttpGet
    \/ Respond

SpecMain == InitMain /\ [][NextMain]_vars

\* the app after lifespan, with any summary file loaded
InitClusters ==
    /\ SmallStore
    /\ cli = NoCli
    /\ data_files = [f \in DataFiles |-> "ok"]
    /\ app = "serving"
    /\ cases_data = <<>>
    /\ summary_data \in SummaryFiles

GetClusterRepresentatives ==
    /\ app = "serving"
    /\ req.op = "none"
    /\ \E r \in RequestsFor(<<"api", "cases", "cluster-representatives">>) :
        MainHandled([r EXCEPT !.op = dispatch(r.path)],
                    call_endpoint(dispatch(r.path), r))

NextClusters ==
    \/ GetClusterRepresentatives
    \/ Respond

SpecClusters == InitClusters /\ [][NextClusters]_vars

\* --------------------------------------- the K-means script as a process
\* `python kmeans_clustering.py ...` started with some arguments and some file
InitCli ==
    /\ SmallStore
    /\ MainNotStarted
    /\ cli \in [pc : {"start"}, args_ok : BOOLEAN, data_file : FileStates,
                 data : CliDataFiles, features : FeatureLists,
                 n_clusters : 0..MaxClusters, df : {<<>>}, feature_names : {<<>>},
                 cluster_labels : {<<>>}, steps : {<<>>}, stdout : {<<>>},
                 exit_status : {-1}]

CliStep(next_cli) ==
    /\ cli' = next_cli
    /\ UNCHANGED <<storeVars, coordinates_cache, mainVars, inflight, req, similar, resp>>

\* parser.parse_args(): usage message on stderr and exit status 2 when the
\* arguments do not parse
ParseArgs ==
    /\ cli.pc = "start"
    /\ CliStep(IF cli.args_ok THEN [cli EXCEPT !.pc = "parsed"]
               ELSE Exited(cli, <<>>, 2))

CliLoadData ==
    /\ cli.pc = "parsed"
    /\ LET loaded == cli_load_data(cli.data_file, cli.data)
           ran == [cli EXCEPT !.steps = Append(@, "load_data")]
       IN  CliStep(IF loaded.error # None
                   THEN Exited(ran, <<cli_error(loaded.error)>>, 1)
                   ELSE [ran EXCEPT !.pc = "loaded", !.df = loaded.df])

\* an exception that leaves prepare_features ends the script with a traceback
\* on stderr, nothing on stdout and exit status 1
CliPrepareFeatures ==
    /\ cli.pc = "loaded"
    /\ LET prepared == prepare_features(cli.df, cli.features)
           ran == [cli EXCEPT !.steps = Append(@, "prepare_features")]
       IN  CliStep(IF prepared.raised THEN Exited(ran, <<>>, 1)
                   ELSE IF prepared.error # None
                   THEN Exited(ran, <<cli_error(prepared.error)>>, 1)
                   ELSE [ran EXCEPT !.pc = "prepared",
                                    !.feature_names = prepared.feature_names])

CliPerformKmeans ==
    /\ cli.pc = "prepared"
    /\ LET ran == [cli EXCEPT !.steps = Append(@, "perform_kmeans")]
       IN  IF kmeans_raises(cli.df, cli.feature_names, cli.n_clusters)
           THEN CliStep(Exited(ran, <<cli_error("Clustering failed")>>, 1))
           ELSE \E labels \in KmeansLabels(cli.df, cli.n_clusters) :
                    CliStep([ran EXCEPT !.pc = "clustered", !.cluster_labels = labels])

\* statistics, the result object, print, and the normal end of the process
CliFinish ==
    /\ cli.pc = "clustered"
    /\ CliStep(Exited([cli EXCEPT !.steps = Append(@, "calculate_cluster_stats")],
                      <<cli_result(cli.df, cli.cluster_labels)>>, 0))

NextCli ==
    \/ ParseArgs
    \/ CliLoadData
    \/ CliPrepareFeatures
    \/ CliPerformKmeans
    \/ CliFinish

SpecCli == InitCli /\ [][NextCli]_vars

\* calculate_cluster_stats on its own, with any list of labels
LabelLists == UNION {[1..n -> 0..(MaxClusters - 1)] : n \in 0..MaxLabels}

InitStats ==
    /\ SmallStore
    /\ MainNotStarted
    /\ cli \in [pc : {"stats_input"}, cluster_labels : LabelLists,
                 cluster_statistics : {<<>>}]

CalculateClusterStats ==
    /\ cli.pc = "stats_input"
    /\ CliStep([cli EXCEPT !.pc = "stats_done",
                           !.cluster_statistics = calculate_cluster_stats(cli.cluster_labels)])

NextStats == CalculateClusterStats

SpecStats == InitStats /\ [][NextStats]_vars

\* the UMAP router alone
NextUmap ==
    \/ GetUmapCoordinates
    \/ GetUmapMethods
    \/ GetClinicalCoordinates
    \/ GetUmapSimilarCases
    \/ GetUmapStatistics
    \/ Respond

SpecUmap == InitApi /\ [][NextUmap]_vars

\* startup followed by requests
NextStartup ==
    \/ ImportSimilarity
    \/ GetSimilar
    \/ PostSearch
    \/ GetCompare
    \/ Respond

SpecStartup == InitStartup /\ [][NextStartup]_vars

\* a text ranking function called on the store that the import left
CallTextRanker ==
    /\ Idle
    /\ \E fn \in {"find_similar_tfidf", "find_similar_bert"}, k \in 1..(MaxK + 1) :
        \E q_text \in Vecs :
            Handled([NoReq EXCEPT !.op = fn, !.top_k = k, !.text_weight = WeightDen,
                                  !.q_text = q_text],
                    call_ranker(fn, q_text, ZeroVec, k, WeightDen))

\* startup from files of any length, followed by ranking calls
NextLoad ==
    \/ ImportAnyRows
    \/ CallTextRanker
    \/ Respond

SpecLoad == InitStartup /\ [][NextLoad]_vars

\* ---------------------------------------------------------------- properties
IsRankerCall == req.op \in Rankers

IsSimilarOk == req.op = "similar" /\ resp.status = 200

KnownCase == \E i \in 1..Len(cases) : cases[i] = req.case_id

\* the row of the case a GET /similar or GET /compare request names
QueryRow == CHOOSE i \in 1..Len(cases) : cases[i] = req.case_id

NonIncreasing(scores) ==
    \A r \in 1..(Len(scores) - 1) : scores[r] >= scores[r + 1]

Scores(sim) == [r \in 1..Len(sim) |-> sim[r][2]]

Similarities(results) == [r \in 1..Len(results) |-> results[r].similarity]

Rows(sim) == {sim[r][1] : r \in 1..Len(sim)}

\* C1: GET /similar/{case_id} never returns the query case's own row, also
\* when another row ties with or scores above the query's row.
C1_SelfExcluded ==
    IsSimilarOk => QueryRow \notin Rows(similar)

\* C2: GET /similar/{case_id} with top_k = k returns exactly
\* min(k, totalCases - 1) results.
C2_ExactCount ==
    IsSimilarOk => Len(resp.results) = Min(req.top_k, Len(cases) - 1)

\* C3: every list a find_similar_* function returns and every results list of
\* GET /similar, POST /search and GET /compare is sorted by non-increasing score.
C3_SortedDescending ==
    /\ NonIncreasing(Scores(similar))
    /\ NonIncreasing(Similarities(resp.results))
    /\ NonIncreasing(Similarities(resp.tfidf_results))
    /\ NonIncreasing(Similarities(resp.bert_results))

C3_Witness ==
    /\ req.op = "search"
    /\ Len(resp.results) = 3
    /\ resp.results[1].similarity > resp.results[2].similarity
    /\ resp.results[2].similarity > resp.results[3].similarity

\* C4: in a list a find_similar_* function returns, rows of equal score appear
\* in row order, the smaller row index first.
C4_TiesInRowOrder ==
    IsRankerCall =>
        \A r1, r2 \in 1..Len(similar) :
            (r1 < r2 /\ similar[r1][2] = similar[r2][2]) => similar[r1][1] < similar[r2][1]

\* the score the called ranking function gives row i
RowScore(i) ==
    IF req.op = "find_similar_tfidf" THEN CosTable[req.q_text, tfidf_matrix[i]] * WeightDen
    ELSE IF req.op = "find_similar_bert" THEN CosTable[req.q_text, bert_embeddings[i]] * WeightDen
    ELSE IF req.op = "find_similar_image"
        THEN CosTable[req.q_image, image_embeddings.rows[i]] * WeightDen
    ELSE IF image_embeddings.isNone THEN CosTable[req.q_text, bert_embeddings[i]] * WeightDen
    ELSE req.text_weight * CosTable[req.q_text, bert_embeddings[i]]
         + (WeightDen - req.text_weight) * CosTable[req.q_image, image_embeddings.rows[i]]

\* C5: a find_similar_* function called with k >= 1 returns exactly
\* min(k, numRows) entries with distinct row indices, and no row left out scores
\* strictly above a returned row.
C5_TopKSet ==
    (IsRankerCall /\ resp.status = 200) =>
        /\ Len(similar) = Min(req.top_k, Len(cases))
        /\ Cardinality(Rows(similar)) = Len(similar)
        /\ Rows(similar) \subseteq 1..Len(cases)
        /\ \A i \in (1..Len(cases)) \ Rows(similar) :
               \A j \in Rows(similar) : RowScore(i) <= RowScore(j)

C5_Witness ==
    /\ req.op = "find_similar_tfidf"
    /\ resp.status = 200
    /\ Len(similar) = 2
    /\ Len(cases) = 3
    /\ \E i \in (1..Len(cases)) \ Rows(similar) :
           \A j \in Rows(similar) : RowScore(i) < RowScore(j)

\* the text and image query vectors of the hybrid ranking in the last operation
HybridRan ==
    /\ ~image_embeddings.isNone
    /\ resp.status = 200
    /\ \/ req.op = "find_similar_hybrid"
       \/ req.op = "similar" /\ req.method = "hybrid"

HybridTextQuery ==
    IF req.op = "similar" THEN bert_embeddings[QueryRow] ELSE req.q_text

HybridImageQuery ==
    IF req.op = "similar" THEN image_embeddings.rows[QueryRow] ELSE req.q_image

CombinedScore(i) ==
    req.text_weight * CosTable[HybridTextQuery, bert_embeddings[i]]
    + (WeightDen - req.text_weight) * CosTable[HybridImageQuery, image_embeddings.rows[i]]

\* C6: with the image matrix loaded, find_similar_hybrid reports for every
\* returned row its BERT similarity, its image similarity and
\* text_weight * text + (1 - text_weight) * image, and selects and orders the
\* top k on that combined score.
C6_HybridCombinedScore ==
    HybridRan =>
        /\ \A r \in 1..Len(similar) :
            /\ Len(similar[r]) = 4
            /\ similar[r][3] = CosTable[HybridTextQuery, bert_embeddings[similar[r][1]]]
            /\ similar[r][4] = CosTable[HybridImageQuery, image_embeddings.rows[similar[r][1]]]
            /\ similar[r][2] = CombinedScore(similar[r][1])
        /\ \A r \in 1..(Len(similar) - 1) :
               CombinedScore(similar[r][1]) >= CombinedScore(similar[r + 1][1])
        /\ req.op = "find_similar_hybrid" =>
               \A i \in (1..Len(cases)) \ Rows(similar) :
                   \A j \in Rows(similar) : CombinedScore(i) <= CombinedScore(j)

\* the combined order differs from both the text order and the image order
C6_Witness ==
    /\ HybridRan
    /\ req.op = "find_similar_hybrid"
    /\ Len(similar) >= 2
    /\ similar[1][2] > similar[2][2]
    /\ similar[1][3] < similar[2][3]
    /\ \E r \in 2..Len(similar) : similar[1][4] < similar[r][4]

\* the (index, combined score) pairs of a hybrid result
IndexAndCombined(sim) == [r \in 1..Len(sim) |-> <<sim[r][1], sim[r][2]>>]

\* the pairs of a text-only or image-only result, in the unit of the combined score
InCombinedUnit(sim) == [r \in 1..Len(sim) |-> <<sim[r][1], sim[r][2] * WeightDen>>]

\* C7: with the image matrix loaded, find_similar_hybrid with text_weight = 1
\* returns the indices, order and scores of find_similar_bert on the text query,
\* and with text_weight = 0 those of find_similar_image on the image query.
C7_HybridEndpoints ==
    (req.op = "find_similar_hybrid" /\ ~image_embeddings.isNone) =>
        /\ req.text_weight = WeightDen =>
               IndexAndCombined(similar)
                   = InCombinedUnit(find_similar_bert(req.q_text, req.top_k))
        /\ req.text_weight = 0 =>
               IndexAndCombined(similar)
                   = InCombinedUnit(find_similar_image(req.q_image, req.top_k).value)

\* text-only and image-only rank the rows differently, and both weights were used
C7_Witness ==
    /\ req.op = "find_similar_hybrid"
    /\ ~image_embeddings.isNone
    /\ req.text_weight \in {0, WeightDen}
    /\ Len(similar) >= 2
    /\ find_similar_bert(req.q_text, req.top_k)[1][1]
           # find_similar_image(req.q_image, req.top_k).value[1][1]

\* C8: without the image matrix, GET /similar/{case_id} for an existing case
\* ends with 503 and no results for method image or hybrid, and succeeds for
\* tfidf and bert.
C8_ImageUnavailable ==
    (req.op = "similar" /\ image_embeddings.isNone /\ KnownCase) =>
        /\ req.method \in {"image", "hybrid"} =>
               resp.status = 503 /\ resp.results = <<>> /\ similar = <<>>
        /\ req.method \in {"tfidf", "bert"} =>
               resp.status = 200 /\ Len(resp.results) >= Min(req.top_k, Len(cases) - 1)

C8_Witness ==
    /\ req.op = "similar"
    /\ image_embeddings.isNone
    /\ KnownCase
    /\ req.method = "hybrid"
    /\ resp.status = 503

\* C9: find_similar_hybrid always returns 4-tuples; without the image matrix
\* it fails instead of returning text-only (index, score) pairs.
C9_HybridFourTuples ==
    req.op = "find_similar_hybrid" =>
        /\ \A r \in 1..Len(similar) : Len(similar[r]) = 4
        /\ image_embeddings.isNone => resp.status # 200

\* C10: GET /similar/{case_id} and GET /compare/{case_id} with an id of no loaded
\* case end with 404 for every method, top_k and text_weight, whether or not
\* the image matrix is loaded.
C10_UnknownCase404 ==
    (req.op \in {"similar", "compare"} /\ ~KnownCase) =>
        /\ resp.status = 404
        /\ similar = <<>>
        /\ resp.results = <<>>
        /\ resp.tfidf_results = <<>>
        /\ resp.bert_results = <<>>

C10_Witness ==
    /\ req.op = "similar"
    /\ ~KnownCase
    /\ req.method = "image"
    /\ ~image_available
    /\ resp.status = 404

\* a text without any non-whitespace character
OnlyWhitespace(text) == \A i \in 1..Len(text) : text[i] = " "

\* C11: POST /search whose text is empty or only whitespace ends with 400 for
\* every method and top_k, and nothing is encoded or ranked for it.
C11_BlankText400 ==
    (req.op = "search" /\ OnlyWhitespace(req.text)) =>
        /\ resp.status = 400
        /\ similar = <<>>
        /\ resp.results = <<>>

C11_Witness ==
    /\ req.op = "search"
    /\ Len(req.text) > 0
    /\ OnlyWhitespace(req.text)
    /\ req.method = "tfidf"
    /\ resp.status = 400

\* C12: POST /search with non-blank text, top_k >= 1 and a non-empty store
\* answers, for every method the request model accepts, either with exactly
\* min(top_k, number of cases) results or with an error status; never 200 with
\* an empty or shortened list.
C12_FullListOrError ==
    (req.op = "search" /\ ~OnlyWhitespace(req.text) /\ req.top_k >= 1 /\ Len(cases) >= 1) =>
        \/ resp.status # 200
        \/ Len(resp.results) = Min(req.top_k, Len(cases))

\* C14: format_results returns one record per ranked tuple, in the same order;
\* the i-th record has rank i and the id of the case at the i-th tuple's row.
C14_FormatResults ==
    /\ (req.op \in {"similar", "search"} /\ resp.status = 200) =>
        /\ Len(resp.results) = Len(similar)
        /\ \A i \in 1..Len(similar) :
            /\ resp.results[i].rank = i
            /\ resp.results[i].id = cases[similar[i][1]]
    /\ (req.op = "compare" /\ resp.status = 200) =>
        /\ Len(resp.bert_results) = Len(similar)
        /\ \A i \in 1..Len(similar) :
            /\ resp.bert_results[i].rank = i
            /\ resp.bert_results[i].id = cases[similar[i][1]]

\* 4-tuples formatted, and the ranked rows are not in row order
C14_Witness ==
    /\ req.op = "similar"
    /\ req.method = "hybrid"
    /\ resp.status = 200
    /\ Len(resp.results) = 2
    /\ Len(similar[1]) = 4
    /\ similar[1][1] > similar[2][1]

ResultIds(results) == {results[i].id : i \in 1..Len(results)}

\* C15: GET /compare/{case_id} reports overlap_count = number of ids in both
\* result lists and overlap_percentage = 100 * overlap_count / top_k rounded to
\* one decimal (held in tenths), which lies in [0, 100].
C15_Overlap ==
    (req.op = "compare" /\ resp.status = 200) =>
        /\ resp.overlap_count
               = Cardinality(ResultIds(resp.tfidf_results) \cap ResultIds(resp.bert_results))
        /\ 2 * (resp.overlap_percentage * req.top_k - 1000 * resp.overlap_count)
               <= req.top_k
        /\ 2 * (1000 * resp.overlap_count - resp.overlap_percentage * req.top_k)
               <= req.top_k
        /\ resp.overlap_percentage >= 0
        /\ resp.overlap_percentage <= 1000

\* one of three: 33.3 percent
C15_Witness ==
    /\ req.op = "compare"
    /\ resp.status = 200
    /\ req.top_k = 3
    /\ resp.overlap_count = 1
    /\ Len(resp.tfidf_results) = 2

\* C16: POST /search with method = both returns the same ordered results as the
\* same request with method = bert.
C16_BothIsBert ==
    (req.op = "search" /\ req.method = "both") =>
        /\ resp.status = search_by_text(req.text, "bert", req.top_k).body.status
        /\ resp.results = search_by_text(req.text, "bert", req.top_k).body.results

\* the TF-IDF ranking of the same text differs
C16_Witness ==
    /\ req.op = "search"
    /\ req.method = "both"
    /\ resp.status = 200
    /\ Len(resp.results) >= 2
    /\ resp.results # search_by_text(req.text, "tfidf", req.top_k).body.results

\* Query(default=10, ge=1, le=50): the range of top_k on the GET routes
ge_top_k == 1
le_top_k == 50

\* C13: a request whose top_k lies outside 1..50 (GET /similar, GET /compare or
\* POST /search) or whose text_weight lies outside [0, 1] is rejected with 400
\* and never reaches the ranking functions.
C13_OutOfRangeRejected ==
    (/\ req.op \in {"similar", "compare", "search"}
     /\ \/ req.top_k < ge_top_k
        \/ req.top_k > le_top_k
        \/ req.text_weight < 0
        \/ req.text_weight > WeightDen) =>
        /\ resp.status = 400
        /\ similar = <<>>

\* C17: if a required artifact of the similarity store is missing or unreadable
\* at startup, initialization fails, the store is never bound and no similarity
\* request is ever served.
C17_RequiredOrFail ==
    (\E a \in Required : files[a] # "ok") =>
        /\ phase # "serving"
        /\ req = NoReq
        /\ resp = NoResp
        /\ cases = <<>>
        /\ tfidf_matrix = <<>>
        /\ bert_embeddings = <<>>

\* only the BERT model is absent, and the import has run
C17_Witness ==
    /\ phase = "failed"
    /\ files["bert_model"] = "missing"
    /\ \A a \in Artifacts \ {"bert_model"} : files[a] = "ok"

\* C18: after initialization image_available is true exactly when
\* image_embeddings is not None; a missing or unreadable image file leaves
\* image_available false and image_embeddings None and does not abort the
\* initialization.
C18_ImageFlag ==
    /\ phase = "serving" =>
        /\ image_available <=> ~image_embeddings.isNone
        /\ image_available <=> files["image_embeddings_resnet50"] = "ok"
    /\ (phase = "failed" /\ files["image_embeddings_resnet50"] # "ok") =>
        \E a \in Required : files[a] # "ok"

\* an unreadable image file, and the store serves a text request
C18_Witness ==
    /\ phase = "serving"
    /\ files["image_embeddings_resnet50"] = "unreadable"
    /\ ~image_available
    /\ image_embeddings.isNone
    /\ req.op = "similar"
    /\ req.method = "bert"
    /\ resp.status = 200

\* C19: after a successful initialization the TF-IDF matrix, the BERT matrix
\* and (when present) the image matrix have exactly as many rows as there are
\* cases, so every row index a ranking function returns is an index into the
\* case array.
C19_RowCounts ==
    phase = "serving" =>
        /\ Len(tfidf_matrix) = Len(cases)
        /\ Len(bert_embeddings) = Len(cases)
        /\ ~image_embeddings.isNone => Len(image_embeddings.rows) = Len(cases)
        /\ \A i \in 1..Len(similar) : similar[i][1] \in 1..Len(cases)

\* C20: no request handler of the similarity router or the UMAP router modifies
\* process-wide shared state: the case array, the embedding matrices,
\* image_available and every module-level cache keep their startup values.
C20_NoSharedStateChange ==
    [][UNCHANGED <<moduleVars, coordinates_cache>>]_vars

\* C28: for every existing case id and top_k, the tfidf_results and
\* bert_results of GET /compare/{case_id} are the same ordered lists as the
\* results of GET /similar/{case_id} with method tfidf and method bert.
C28_CompareEqualsSimilar ==
    (req.op = "compare" /\ resp.status = 200) =>
        /\ resp.tfidf_results =
               find_similar_by_case_id(req.case_id, "tfidf", req.top_k, WeightDen).body.results
        /\ resp.bert_results =
               find_similar_by_case_id(req.case_id, "bert", req.top_k, WeightDen).body.results

\* C26: GET /similar-cases/{case_id} answers 404 when the lookup file is
\* missing or case_id is not a key of it, 500 on any other load failure, and
\* otherwise the first min(top_k, length) entries of the precomputed list in
\* stored order, for every top_k >= 0.
C26_SimilarCases ==
    (req.op = "umap_similar_cases" /\ req.top_k >= 0) =>
        IF req.file = "missing" THEN resp.status = 404
        ELSE IF req.file # "ok" THEN resp.status = 500
        ELSE IF req.key \notin DOMAIN req.lookup THEN resp.status = 404
        ELSE /\ resp.status = 200
             /\ Len(resp.results) = Min(req.top_k, Len(req.lookup[req.key]))
             /\ \A i \in 1..Len(resp.results) : resp.results[i] = req.lookup[req.key][i]

\* a list cut short by top_k
C26_Witness ==
    /\ req.op = "umap_similar_cases"
    /\ req.file = "ok"
    /\ req.key \in DOMAIN req.lookup
    /\ Len(req.lookup[req.key]) = 2
    /\ req.top_k = 1
    /\ resp.status = 200
    /\ resp.results = <<"n1">>

\* an unknown key in a readable file
C26_Witness404 ==
    /\ req.op = "umap_similar_cases"
    /\ req.file = "ok"
    /\ req.key \notin DOMAIN req.lookup
    /\ resp.status = 404

CachedKey(request) ==
    IF request.op = "umap_coordinates" /\ request.method \in UmapMethods
    THEN request.method
    ELSE IF request.op = "umap_clinical" THEN "clinical"
    ELSE "none"

\* C29: a /coordinates or /clinical-coordinates request that ends with 400,
\* 404 or 500 leaves _coordinates_cache unchanged; a key that has been loaded
\* keeps its entry for ever, and every later request for it returns the cached
\* value whatever the file has become.
C29_CacheStable ==
    [][/\ \A k \in CacheKeys :
            coordinates_cache[k] # NoData => coordinates_cache'[k] = coordinates_cache[k]
       /\ resp'.status \in {400, 404, 500} => coordinates_cache' = coordinates_cache
       /\ (CachedKey(req') # "none" /\ coordinates_cache[CachedKey(req')] # NoData) =>
            /\ resp'.status = 200
            /\ resp'.results = <<coordinates_cache[CachedKey(req')]>>]_vars

\* the file was rewritten after the first load, and the first content is served
C29_Witness ==
    /\ req.op = "umap_coordinates"
    /\ req.method = "text"
    /\ req.file = "ok"
    /\ req.data = "run_b"
    /\ resp.status = 200
    /\ resp.results = <<"run_a">>
    /\ coordinates_cache["text"] = "run_a"

C22_LoadFailureFatal ==
    (\E f \in DataFiles : data_files[f] # "ok") => app # "serving"

\* the endpoint that belongs to a URL of the cases API
OwnEndpoint(path) ==
    IF path = <<"api", "cases", "search">> THEN "search_cases"
    ELSE IF path = <<"api", "cases", "summary">> THEN "get_cases_summary"
    ELSE IF path = <<"api", "cases", "summary_all">> THEN "get_cases_summary_all"
    ELSE "get_cluster_representatives"

\* C23: GET /api/cases/search is dispatched to search_cases, not to
\* get_case_detail with case_id = 'search'; /api/cases/summary,
\* /api/cases/summary_all and /api/cases/cluster-representatives each reach
\* their own handler.
C23_OwnHandler ==
    (/\ Len(req.path) = 3
     /\ req.path[2] = "cases"
     /\ req.path[3] \in {"search", "summary", "summary_all", "cluster-representatives"}) =>
        req.op = OwnEndpoint(req.path)

\* C24: when diagnosis_biobert_clusters.json does not exist, GET
\* /api/cases/cluster-representatives responds with status 404.
C24_MissingClusterFile404 ==
    (req.op = "get_cluster_representatives" /\ req.file = "missing") =>
        resp.status = 404

\* the entries of a cluster that can win: frequency > 0
Candidates(entries, c) ==
    {i \in 1..Len(entries) : entries[i].cluster = c /\ entries[i].frequency > 0}

\* the first entry, in file order, of maximum frequency in the cluster
FirstMaximum(entries, c) ==
    CHOOSE i \in Candidates(entries, c) :
        \A j \in Candidates(entries, c) :
            \/ entries[i].frequency > entries[j].frequency
            \/ entries[i].frequency = entries[j].frequency /\ i <= j

HasDiagnosis(d) == {s \in 1..Len(summary_data) : summary_data[s].diagnosis = d}

FirstSummary(d) == CHOOSE s \in HasDiagnosis(d) : \A t \in HasDiagnosis(d) : s <= t

EntriesOf(c) == {e \in resp.results : e.cluster_id = c}

IsRepresentatives == req.op = "get_cluster_representatives" /\ resp.status = 200

\* C25 as stated: for each cluster id in 0..24 there is an entry if and only if
\* the cluster has a diagnosis with frequency > 0 and some summary has the
\* diagnosis of maximum frequency (the first in file order among equals); the
\* entry's case is the first summary with that diagnosis.
C25_Representatives ==
    IsRepresentatives =>
        \A c \in 0..(NumClusters - 1) :
            /\ EntriesOf(c) # {} <=>
                /\ Candidates(req.lookup, c) # {}
                /\ HasDiagnosis(req.lookup[FirstMaximum(req.lookup, c)].diagnosis) # {}
            /\ \A e \in EntriesOf(c) :
                e.case = summary_data[FirstSummary(
                             req.lookup[FirstMaximum(req.lookup, c)].diagnosis)]

\* C25 amended: the same, where the diagnosis of maximum frequency must also be
\* a non-empty string; a cluster whose winning diagnosis is empty has no entry.
C25_RepresentativesNonEmpty ==
    IsRepresentatives =>
        \A c \in 0..(NumClusters - 1) :
            /\ EntriesOf(c) # {} <=>
                /\ Candidates(req.lookup, c) # {}
                /\ req.lookup[FirstMaximum(req.lookup, c)].diagnosis # ""
                /\ HasDiagnosis(req.lookup[FirstMaximum(req.lookup, c)].diagnosis) # {}
            /\ \A e \in EntriesOf(c) :
                e.case = summary_data[FirstSummary(
                             req.lookup[FirstMaximum(req.lookup, c)].diagnosis)]
            /\ Cardinality(EntriesOf(c)) <= 1

\* two diagnoses of equal frequency in cluster 24, two summaries with the first
C25_Witness ==
    /\ IsRepresentatives
    /\ Len(req.lookup) = 2
    /\ req.lookup[1] = [diagnosis |-> "flu", cluster |-> 24, frequency |-> 2]
    /\ req.lookup[2] = [diagnosis |-> "cold", cluster |-> 24, frequency |-> 2]
    /\ Len(summary_data) = 2
    /\ summary_data[1].diagnosis = "flu"
    /\ summary_data[2].diagnosis = "flu"
    /\ resp.results = {[cluster_id |-> 24, case |-> summary_data[1]]}

StepOrder == <<"load_data", "prepare_features", "perform_kmeans", "calculate_cluster_stats">>

ErrorOutcome ==
    /\ cli.exit_status = 1
    /\ Len(cli.stdout) = 1
    /\ ~cli.stdout[1].success
    /\ Len(cli.steps) < Len(StepOrder)

SuccessOutcome ==
    /\ cli.exit_status = 0
    /\ Len(cli.stdout) = 1
    /\ cli.stdout[1].success
    /\ Len(cli.stdout[1].cluster_labels) = Len(cli.df)
    /\ Len(cli.stdout[1].cases_with_clusters) = Min(SampleLimit, Len(cli.df))
    /\ cli.steps = StepOrder

\* C27: the K-means script ends in exactly one of two outcomes: one JSON object
\* with key 'error' and exit status 1, or one JSON object with 'success': true
\* holding labels for all samples and min(100, samples) cases; the steps run in
\* the order load, prepare, cluster, statistics and none runs after a failure.
C27_TwoOutcomes ==
    /\ cli.pc # "none" => cli.steps = SliceTo(StepOrder, Len(cli.steps))
    /\ cli.pc = "exited" => (ErrorOutcome \/ SuccessOutcome)

\* C30: calculate_cluster_stats produces one entry cluster_<c> for every label
\* c that occurs in the list, with size equal to the number of rows labelled c,
\* so that the sizes sum to the number of rows.
C30_EntryPerLabel ==
    cli.pc = "stats_done" =>
        \A i \in 1..Len(cli.cluster_labels) :
            /\ cli.cluster_labels[i] \in DOMAIN cli.cluster_statistics
            /\ cli.cluster_statistics[cli.cluster_labels[i]].size
                   = Cardinality({j \in 1..Len(cli.cluster_labels) :
                                     cli.cluster_labels[j] = cli.cluster_labels[i]})

====
